---- MODULE Spec2Model ----
(***************************************************************************)
(* pyopensky: reconstruction of aircraft state vectors from raw ADS-B      *)
(* messages.  The module models                                            *)
(*   - PyModesDecoder.decode_position (decoders/pymodes.py): pairing of    *)
(*     odd/even CPR frames with two merge_asof calls, decoding of the      *)
(*     pairs and validation against the fixes 5 and 10 rows back;          *)
(*   - Rebuild.rebuild (rebuild.py): fusion of the velocity,               *)
(*     identification and rollcall tables onto the position table.         *)
(* Tables are sequences of records, one record per row, one field per      *)
(* column.  Times are integers: mintime in seconds, timestamps in          *)
(* milliseconds.  Latitudes and longitudes are integers in 1e-5 degree.    *)
(* The pyModeS library is not part of the repository: what its functions   *)
(* return is chosen nondeterministically.                                  *)
(***************************************************************************)
EXTENDS Integers, Sequences, FiniteSets, TLC

VARIABLES
    pc,         \* position of the call in decode_position / rebuild
    df,         \* decode_position: the table it is given
    pos_pairs,  \* decode_position: the local table pos_pairs
    ret,        \* what the call returned
    positions,  \* rebuild: what redecode_position returned
    pos_data,   \* rebuild: the local table pos_data
    vel_data,   \* rebuild: what redecode_velocity returned
    ident_data, \* rebuild: what redecode_identification returned
    rollcall_data,      \* rebuild: what redecode_rollcall returned
    include_rollcall,   \* rebuild: the parameter include_rollcall
    decoder,    \* rebuild: the parameter decoder, "None" when it is None
    query_icao24,       \* rebuild: the parameter icao24, "None" when it is None
    bounds,     \* rebuild: the parameter bounds, "None" when it is None
    fetched,    \* rebuild: the calls of trino.rawdata so far, in order
    records,    \* Rs1090Decoder.decode: decoded, what rs1090.decode returned
    chunk,      \* Rs1090Decoder.decode: the size n given to batched
    _token,     \* Trino._token
    now,        \* the clock, in minutes
    trino_username,     \* config: the credentials, "None" when not set
    cache_files,        \* the files of cache_path: digest and suffix -> table
    call,       \* Trino: the last call and what became of it
    retry,      \* REST.get: the parameter retry
    response,   \* REST.get: the response c of self.client.get
    sent        \* REST.get: the requests sent so far

vars == <<pc, df, pos_pairs, ret, positions, pos_data, vel_data, ident_data,
          rollcall_data, include_rollcall, decoder, query_icao24, bounds,
          fetched, records, chunk, _token, now, trino_username, cache_files,
          call, retry, response, sent>>

\* the variables of Rs1090Decoder.decode, of Trino and of REST
clientVars == <<records, chunk, _token, now, trino_username, cache_files,
                call, retry, response, sent>>

\* the variables of decode_position and those of rebuild
decodeVars == <<df, pos_pairs>>
argVars == <<decoder, query_icao24, bounds>>
rebuildVars == <<positions, pos_data, vel_data, ident_data, rollcall_data,
                 include_rollcall, decoder, query_icao24, bounds,
          fetched>>

(***************************************************************************)
(* Values                                                                  *)
(***************************************************************************)

\* A missing value of a column (None / NaN / NaT).  Every present value of
\* the model is >= 0.
NULL == 0 - 1

\* Trino._token when it is None
NoToken == [access_token |-> NULL, exp |-> NULL]

\* no call of Rs1090Decoder.decode, Trino or REST
NoClient ==
    /\ records = <<>>
    /\ chunk = 0
    /\ _token = NoToken
    /\ now = 0
    /\ trino_username = "None"
    /\ cache_files = {}
    /\ call = [method |-> "None"]
    /\ retry = 0
    /\ response = "None"
    /\ sent = 0

Icao24s == {"3c6444", "400a0e"}

\* tolerance of the odd/even merge_asof, in seconds
PairTolerance == 10

\* bound of the inputs of the pairing step: the rows of the table
MaxFrames == 3

\* The times of the frames: a grid of half the tolerance, up to the first
\* time past the tolerance, so that two frames are 0, less than, exactly or
\* more than the tolerance apart.
TimeStep == PairTolerance \div 2
Times == {k * TimeStep : k \in 0..(PairTolerance \div TimeStep + 1)}
Altitudes == {NULL, 1000}

Max(S) == CHOOSE x \in S : \A y \in S : y <= x
Abs(x) == IF x < 0 THEN 0 - x ELSE x

\* pd.pd_to_datetime(x.mintime, unit="s", utc=True): seconds to a timestamp
pd_to_datetime(mintime) == mintime * 1000

\* pd.Timedelta(seconds=s), in the unit of the timestamps
Timedelta(seconds) == seconds * 1000

\* A row of the raw position table as redecode_position prepares it.
Frame(icao24, mintime, odd, rawmsg, altitude) ==
    [icao24 |-> icao24, mintime |-> mintime, timestamp |-> pd_to_datetime(mintime),
     odd |-> odd, rawmsg |-> rawmsg, altitude |-> altitude]

IsSorted(t) == \A i \in 1..(Len(t) - 1) : t[i].timestamp <= t[i + 1].timestamp

(***************************************************************************)
(* pandas operations used by decode_position                               *)
(***************************************************************************)

\* df.query("odd")[...] and df.query("not odd")[...]
pos_odd(t) == SelectSeq(t, LAMBDA r : r.odd)
pos_even(t) == SelectSeq(t, LAMBDA r : ~r.odd)

\* The row of `right` merge_asof matches to the left row l (0: none): the
\* default direction is backward, so it is the last row of the same icao24
\* whose timestamp is at or before l's, if it is within the tolerance.
AsofBackward_strict(l, right, tolerance) ==
    LET cand == {j \in 1..Len(right) :
                    /\ right[j].icao24 = l.icao24
                    /\ right[j].timestamp <= l.timestamp}
    IN  IF cand = {} THEN 0
        ELSE IF l.timestamp - right[Max(cand)].timestamp >= tolerance THEN 0
        ELSE Max(cand)

AsofBackward_nearest(l, right, tolerance) ==
    LET cand == {j \in 1..Len(right) :
                    /\ right[j].icao24 = l.icao24
                    /\ Abs(right[j].timestamp - l.timestamp) <= tolerance}
    IN  IF cand = {} THEN 0
        ELSE CHOOSE j \in cand : \A k \in cand :
                Abs(right[j].timestamp - l.timestamp)
                    <= Abs(right[k].timestamp - l.timestamp)

AsofBackward(l, right, tolerance) ==
    LET cand == {j \in 1..Len(right) :
                    /\ right[j].icao24 = l.icao24
                    /\ right[j].timestamp <= l.timestamp}
    IN  IF cand = {} THEN 0
        ELSE IF l.timestamp - right[Max(cand)].timestamp > tolerance THEN 0
        ELSE Max(cand)

\* The columns a row without a match gets: all missing.
NullFrame == [mintime |-> NULL, rawmsg |-> NULL, altitude |-> NULL]

\* One row of the merged table: the key columns `on` and `by` of the left
\* row, and the other columns of the odd row o and of the even row e under
\* the suffixes _odd and _even.
MergeRow_swapped(o, e, timestamp, icao24) ==
    [timestamp |-> timestamp, icao24 |-> icao24,
     mintime_odd |-> e.mintime, rawmsg_odd |-> e.rawmsg,
     altitude_odd |-> e.altitude,
     mintime_even |-> o.mintime, rawmsg_even |-> o.rawmsg,
     altitude_even |-> o.altitude]

MergeRow(o, e, timestamp, icao24) ==
    [timestamp |-> timestamp, icao24 |-> icao24,
     mintime_odd |-> o.mintime, rawmsg_odd |-> o.rawmsg,
     altitude_odd |-> o.altitude,
     mintime_even |-> e.mintime, rawmsg_even |-> e.rawmsg,
     altitude_even |-> e.altitude]

\* pd.merge_asof(left, right, on="timestamp", by="icao24",
\*               tolerance=pd.Timedelta(seconds=10), suffixes=...):
\* a left join, one row per row of `left`, in the order of `left`.
MatchOf(l, right) ==
    LET j == AsofBackward(l, right, Timedelta(PairTolerance))
    IN  IF j = 0 THEN NullFrame ELSE right[j]

\* merge_asof(pos_odd, pos_even, ..., suffixes=("_odd", "_even"))
RECURSIVE MergeAll(_, _, _, _)
MergeAll(odd, even, i, j) ==
    IF i > Len(odd) THEN <<>>
    ELSE IF j > Len(even) THEN MergeAll(odd, even, i + 1, 1)
    ELSE IF /\ even[j].icao24 = odd[i].icao24
            /\ even[j].timestamp <= odd[i].timestamp
            /\ odd[i].timestamp - even[j].timestamp <= Timedelta(PairTolerance)
         THEN <<MergeRow(odd[i], even[j], odd[i].timestamp, odd[i].icao24)>>
                \o MergeAll(odd, even, i, j + 1)
         ELSE MergeAll(odd, even, i, j + 1)

merge_odd_even_all(odd, even) == MergeAll(odd, even, 1, 1)

merge_odd_even(odd, even) ==
    [i \in 1..Len(odd) |->
        MergeRow(odd[i], MatchOf(odd[i], even), odd[i].timestamp, odd[i].icao24)]

\* merge_asof(pos_even, pos_odd, ..., suffixes=("_even", "_odd"))
merge_even_odd(even, odd) ==
    [i \in 1..Len(even) |->
        MergeRow(MatchOf(even[i], odd), even[i], even[i].timestamp, even[i].icao24)]

\* pd.concat([merge_asof(pos_odd, pos_even), merge_asof(pos_even, pos_odd)])
concat_one_direction(t) == merge_odd_even(pos_odd(t), pos_even(t))

concat(t) ==
    merge_odd_even(pos_odd(t), pos_even(t))
        \o merge_even_odd(pos_even(t), pos_odd(t))

\* .sort_values("timestamp"): the rows in ascending order of timestamp.  The
\* default sort is not stable, so rows of equal timestamp come in any order:
\* the set of the orders of the row numbers S of t the sort can produce.
RECURSIVE SortOrders(_, _)
SortOrders(t, S) ==
    IF S = {} THEN {<<>>}
    ELSE UNION {{<<t[i]>> \o rest : rest \in SortOrders(t, S \ {i})} :
                    i \in {j \in S : \A k \in S : t[j].timestamp <= t[k].timestamp}}

sort_values(t) == SortOrders(t, 1..Len(t))

\* .dropna(): the rows without a missing value in any column (icao24, the
\* only column that holds strings, is never missing)
HasNa(r) == \E c \in DOMAIN r \ {"icao24"} : r[c] = NULL

dropna_keep_all(t) == t

dropna(t) == SelectSeq(t, LAMBDA r : ~HasNa(r))

\* decode_position called on its own: no rebuild call is in progress.
NoRebuild ==
    /\ positions = <<>>
    /\ pos_data = <<>>
    /\ vel_data = <<>>
    /\ ident_data = <<>>
    /\ rollcall_data = <<>>
    /\ include_rollcall = FALSE
    /\ decoder = "None"
    /\ query_icao24 = "None"
    /\ bounds = "None"
    /\ fetched = <<>>

(***************************************************************************)
(* PyModesDecoder.decode_position: the pairing step                        *)
(***************************************************************************)

\* What a row of the raw position table can hold.
FrameChoices == [icao24 : Icao24s, mintime : Times, odd : BOOLEAN, altitude : Altitudes]

\* The pairing step as a function of the table: the tables it can produce.
Pairing(t) == {dropna(sorted) : sorted \in sort_values(concat(t))}

\* The table decode_position is given by redecode_position, row by row: it
\* is sorted by timestamp and its rawmsg are unique
\* (drop_duplicates("rawmsg")): the rawmsg of a frame is its row number.
FetchRow ==
    /\ pc = "pair"
    /\ Len(df) < MaxFrames
    /\ \E f \in FrameChoices :
            /\ Len(df) > 0 => df[Len(df)].mintime <= f.mintime
            /\ df' = Append(df, Frame(f.icao24, f.mintime, f.odd, Len(df) + 1, f.altitude))
    /\ UNCHANGED <<pc, pos_pairs, ret>>
    /\ UNCHANGED rebuildVars
    /\ UNCHANGED clientVars

\* lines 76-108: pos_odd, pos_even, the two merges, concat, sort, dropna
PairFrames ==
    /\ pc = "pair"
    /\ \E pairs \in Pairing(df) : pos_pairs' = pairs
    /\ pc' = "paired"
    /\ UNCHANGED <<df, ret>>
    /\ UNCHANGED rebuildVars
    /\ UNCHANGED clientVars

\* lines 110-111: if pos_pairs.shape[0] == 0: return df
ReturnInput ==
    /\ pc = "paired"
    /\ Len(pos_pairs) = 0
    /\ ret' = df
    /\ pc' = "done"
    /\ UNCHANGED <<df, pos_pairs>>
    /\ UNCHANGED rebuildVars
    /\ UNCHANGED clientVars

InitPair ==
    /\ pc = "pair"
    /\ df = <<>>
    /\ pos_pairs = <<>>
    /\ ret = <<>>
    /\ NoRebuild
    /\ NoClient

NextPair == FetchRow \/ PairFrames \/ ReturnInput

SpecPair == InitPair /\ [][NextPair]_vars

\* Tables of one aircraft whose frames come TimeStep apart or at the same
\* time, all with an altitude.
MaxTieFrames == 4

FetchTieRow ==
    /\ pc = "pair"
    /\ Len(df) < MaxTieFrames
    /\ \E mintime \in {k * TimeStep : k \in 0..2}, odd \in BOOLEAN :
            /\ Len(df) > 0 => df[Len(df)].mintime <= mintime
            /\ df' = Append(df, Frame("400a0e", mintime, odd, Len(df) + 1, 1000))
    /\ UNCHANGED <<pc, pos_pairs, ret>>
    /\ UNCHANGED rebuildVars
    /\ UNCHANGED clientVars

NextTies == FetchTieRow \/ PairFrames

SpecTies == InitPair /\ [][NextTies]_vars

(***************************************************************************)
(* PyModesDecoder.decode_position: decoding and validation                 *)
(***************************************************************************)

\* lat.shift(5), lat.shift(10): how many rows back the reference fixes are
RefShift1 == 5
RefShift2 == 10

\* the threshold 0.1 degree of the outlier filter, in 1e-5 degree
MaxDiff == 10000

\* bounds of the inputs of the whole of decode_position: the rows of the
\* table, and how many of them (consecutive) are of a second aircraft
MaxTrack == 13
MaxBurst == 2

\* What pyModeS decodes when nothing goes wrong: the aircraft moves by 1e-5
\* degree per second from where it was at time 0, and the altitude is the
\* one of the odd message.
PmsPosition(r) ==
    LET s == r.timestamp \div 1000
    IN  IF r.icao24 = "400a0e" THEN [lat |-> 4800000 + s, lon |-> 200000 + s]
        ELSE [lat |-> 5200000 + s, lon |-> 1300000 + s]

\* What can happen in the decoding of one pair (lines 119-151).
DecodeFaults ==
    {"none", "position_none", "position_raises", "altitude_none", "altitude_raises"}

\* What one pass of the loop of lines 118-151 appends to lats, lons and
\* alts.  When pms.adsb.altitude raises, lat and lon are appended already
\* and the handler appends a None to each of the three lists.
LoopAppend(r, fault) ==
    LET fix == PmsPosition(r)
    IN  CASE fault = "position_raises" ->
                [lats |-> <<NULL>>, lons |-> <<NULL>>, alts |-> <<NULL>>]
          [] fault = "position_none" ->
                [lats |-> <<NULL>>, lons |-> <<NULL>>, alts |-> <<r.altitude_odd>>]
          [] fault = "altitude_none" ->
                [lats |-> <<fix.lat>>, lons |-> <<fix.lon>>, alts |-> <<NULL>>]
          [] fault = "altitude_raises" ->
                [lats |-> <<fix.lat, NULL>>, lons |-> <<fix.lon, NULL>>,
                 alts |-> <<NULL>>]
          [] OTHER ->
                [lats |-> <<fix.lat>>, lons |-> <<fix.lon>>,
                 alts |-> <<r.altitude_odd>>]

\* The lists lats, lons and alts after the loop over the first n rows of t,
\* the decoding of row dev meeting `fault`.
RECURSIVE DecodeLoop(_, _, _, _)
DecodeLoop(t, n, dev, fault) ==
    IF n = 0 THEN [lats |-> <<>>, lons |-> <<>>, alts |-> <<>>]
    ELSE LET before == DecodeLoop(t, n - 1, dev, fault)
             this == LoopAppend(t[n], IF n = dev THEN fault ELSE "none")
         IN  [lats |-> before.lats \o this.lats,
              lons |-> before.lons \o this.lons,
              alts |-> before.alts \o this.alts]

\* A record with the fields of r and those of s (s wins).
Assign(r, s) ==
    [c \in DOMAIN r \cup DOMAIN s |-> IF c \in DOMAIN s THEN s[c] ELSE r[c]]

\* lines 113-153: the decoding loop and
\* pos_pairs.assign(lat=lats, lon=lons, altitude=alts), which raises
\* ValueError when a list is not as long as the table.
DecodePairs ==
    /\ pc = "paired"
    /\ Len(pos_pairs) > 0
    /\ \E dev \in 0..Len(pos_pairs), fault \in DecodeFaults :
        /\ (dev = 0) = (fault = "none")
        /\ LET l == DecodeLoop(pos_pairs, Len(pos_pairs), dev, fault)
           IN  IF \/ Len(l.lats) # Len(pos_pairs)
                  \/ Len(l.lons) # Len(pos_pairs)
                  \/ Len(l.alts) # Len(pos_pairs)
               THEN /\ pc' = "raised"
                    /\ UNCHANGED pos_pairs
               ELSE /\ pc' = "decoded"
                    /\ pos_pairs' =
                         [k \in 1..Len(pos_pairs) |->
                            Assign(pos_pairs[k],
                                   [lat |-> l.lats[k], lon |-> l.lons[k],
                                    altitude |-> l.alts[k]])]
    /\ UNCHANGED <<df, ret>>
    /\ UNCHANGED rebuildVars
    /\ UNCHANGED clientVars

\* x.lat.shift(n): the value n rows back in the table, missing for the
\* first n rows
Shift(t, k, n, column) == IF k > n THEN t[k - n][column] ELSE NULL

\* .dropna(subset=["lat", "lon"])
dropna_subset(t) == SelectSeq(t, LAMBDA r : r.lat # NULL /\ r.lon # NULL)

\* lines 155-161: the reference fixes of every row, then the rows without a
\* position are dropped
AssignRefs ==
    /\ pc = "decoded"
    /\ pos_pairs' =
         dropna_subset(
            [k \in 1..Len(pos_pairs) |->
                Assign(pos_pairs[k],
                       [lat_ref_1 |-> Shift(pos_pairs, k, RefShift1, "lat"),
                        lon_ref_1 |-> Shift(pos_pairs, k, RefShift1, "lon"),
                        lat_ref_2 |-> Shift(pos_pairs, k, RefShift2, "lat"),
                        lon_ref_2 |-> Shift(pos_pairs, k, RefShift2, "lon")])])
    /\ pc' = "refs"
    /\ UNCHANGED <<df, ret>>
    /\ UNCHANGED rebuildVars
    /\ UNCHANGED clientVars

\* What pms.adsb.position_with_ref can do on the rows of one call of
\* decode_position: return the fix of the row, return a fix moved by delta
\* in latitude or in longitude for the first or the second reference, or
\* raise.
Deltas == {0 - MaxDiff, 0 - 2, 1, MaxDiff - 1, MaxDiff, MaxDiff + 1}

RefFaults ==
    {[kind |-> "none"], [kind |-> "raises"]}
        \cup [kind : {"moved"}, ref : {1, 2}, axis : {"lat", "lon"}, delta : Deltas]

\* The columns lat_1, lon_1, lat_2, lon_2 of row r (lines 167-196).
RefColumns(r, fault) ==
    LET moved(ref, axis) ==
            IF fault.kind = "moved" /\ fault.ref = ref /\ fault.axis = axis
            THEN fault.delta ELSE 0
    IN  IF fault.kind = "raises"
        THEN [lat_1 |-> NULL, lon_1 |-> NULL, lat_2 |-> NULL, lon_2 |-> NULL]
        ELSE [lat_1 |-> r.lat + moved(1, "lat"), lon_1 |-> r.lon + moved(1, "lon"),
              lat_2 |-> r.lat + moved(2, "lat"), lon_2 |-> r.lon + moved(2, "lon")]

\* lines 163-196: the re-decoding of every row against its two reference
\* fixes.  Of an empty table np.array(latlon_1) has one dimension and
\* latlon_1_arr[:, 0] raises IndexError.
RefDecode ==
    /\ pc = "refs"
    /\ IF Len(pos_pairs) = 0
       THEN pc' = "raised" /\ UNCHANGED pos_pairs
       ELSE /\ \E fault \in RefFaults :
                    pos_pairs' = [k \in 1..Len(pos_pairs) |->
                                    Assign(pos_pairs[k], RefColumns(pos_pairs[k], fault))]
            /\ pc' = "filter"
    /\ UNCHANGED <<df, ret>>
    /\ UNCHANGED rebuildVars
    /\ UNCHANGED clientVars

\* .query("dlat_1<0.1 and dlon_1<0.1 and dlat_2<0.1 and dlon_2<0.1")
Consistent_3_of_4(r) ==
    /\ Abs(r.lat - r.lat_1) < MaxDiff
    /\ Abs(r.lon - r.lon_1) < MaxDiff
    /\ Abs(r.lat - r.lat_2) < MaxDiff

Consistent_at_most(r) ==
    /\ Abs(r.lat - r.lat_1) <= MaxDiff
    /\ Abs(r.lon - r.lon_1) <= MaxDiff
    /\ Abs(r.lat - r.lat_2) <= MaxDiff
    /\ Abs(r.lon - r.lon_2) <= MaxDiff

Consistent(r) ==
    /\ Abs(r.lat - r.lat_1) < MaxDiff
    /\ Abs(r.lon - r.lon_1) < MaxDiff
    /\ Abs(r.lat - r.lat_2) < MaxDiff
    /\ Abs(r.lon - r.lon_2) < MaxDiff

\* lines 197-202: .dropna() and the four conditions
Validated(t) == SelectSeq(dropna(t), Consistent)

\* lines 197-205: the rows without a missing value that pass the filter are
\* returned.  ret is the table that line 190 binds to pos_pairs and line 205
\* returns; pos_pairs keeps the table that entered the filter.
FilterOutliers ==
    /\ pc = "filter"
    /\ ret' = Validated(pos_pairs)
    /\ pc' = "done"
    /\ UNCHANGED <<df, pos_pairs>>
    /\ UNCHANGED rebuildVars
    /\ UNCHANGED clientVars

(***************************************************************************)
(* The other decoding operations                                           *)
(***************************************************************************)

\* PyModesDecoder.decode_velocity, decode_identification, decode_rollcall
\* and Rs1090Decoder.decode_velocity, decode_identification: return df
decode_velocity(t) == t
decode_identification(t) == t
decode_rollcall(t) == t

\* the batch size of Rs1090Decoder.decode
BatchSize == 5000

Min(a, b) == IF a < b THEN a ELSE b

\* batched(iterable, n): the slices iterable[ndx : min(ndx + n, length)] for
\* ndx in range(0, length, n)
batched(iterable, n) ==
    [b \in 1..((Len(iterable) + n - 1) \div n) |->
        SubSeq(iterable, (b - 1) * n + 1, Min(b * n, Len(iterable)))]

\* pd.concat(frames): the rows of the frames, in order
RECURSIVE pd_concat(_)
pd_concat(frames) ==
    IF Len(frames) = 0 THEN <<>>
    ELSE frames[1] \o pd_concat(Tail(frames))

\* What rs1090.decode(df["rawmsg"], df["mintime"]) can return: the library
\* is not part of the repository; it is taken to return one record per
\* message, in order, but for at most one message it does not decode.
Rs1090Records(t) ==
    {SelectSeq([k \in 1..Len(t) |-> [row |-> k, timestamp |-> t[k].mintime]],
               LAMBDA d : d.row # skip) : skip \in 0..Len(t)}

\* Rs1090Decoder.decode (= decode_position, decode_rollcall): the tables it
\* can return.  pd.concat raises ValueError when there is no batch.
Rs1090Decode(t) ==
    {LET decoded == pd_concat(batched(d, BatchSize))
     IN  [k \in 1..Len(decoded) |->
            [row |-> decoded[k].row,
             timestamp |-> pd_to_datetime(decoded[k].timestamp)]] :
        d \in {x \in Rs1090Records(t) : Len(batched(x, BatchSize)) > 0}}

\* The table decode_position is given, row by row: the frames of one
\* aircraft every TrackStep seconds, odd and even in turn, all with an
\* altitude, and among them at most MaxBurst consecutive frames of a second
\* aircraft.
TrackStep == TimeStep \div 2

FetchTrackRow ==
    /\ pc = "pair"
    /\ Len(df) < MaxTrack
    /\ LET n == Len(df) + 1
           others == {k \in 1..Len(df) : df[k].icao24 = "3c6444"}
       IN  \E icao24 \in Icao24s :
            /\ icao24 = "3c6444" =>
                    /\ Cardinality(others) < MaxBurst
                    /\ others # {} => Len(df) \in others
            /\ df' = Append(df, Frame(icao24, (n - 1) * TrackStep, n % 2 = 1, n, 1000))
    /\ UNCHANGED <<pc, pos_pairs, ret>>
    /\ UNCHANGED rebuildVars
    /\ UNCHANGED clientVars

Init ==
    /\ pc = "pair"
    /\ df = <<>>
    /\ pos_pairs = <<>>
    /\ ret = <<>>
    /\ NoRebuild
    /\ NoClient

Next ==
    \/ FetchTrackRow
    \/ PairFrames
    \/ ReturnInput
    \/ DecodePairs
    \/ AssignRefs
    \/ RefDecode
    \/ FilterOutliers

Spec == Init /\ [][Next]_vars

(***************************************************************************)
(* Rebuild.rebuild: fusion of the streams onto the position table          *)
(***************************************************************************)

\* tolerance=pd.Timedelta(seconds=5) of the three nearest-time joins
FuseTolerance == 5

MaxPositions == 2
MaxSamples == 2

\* The times of the position rows and those of the samples of the other
\* streams: a sample can be at, within, at the limit of and beyond the
\* tolerance of a position, and two samples can be equally near to one.
PositionTimes == {0, FuseTolerance}
SampleTimes == {0, FuseTolerance - 1, FuseTolerance + 1, 2 * FuseTolerance + 1}

\* The order of the strings of icao24.
Icao24Rank(icao24) == IF icao24 = "3c6444" THEN 1 ELSE 2

\* df["icao24"].astype(str): the addresses of the model are strings
normalize_icao24_dtype(t) == t

\* A row redecode_position returns: row n of its table, with or without an
\* altitude and a track.
Position(icao24, mintime, n, present) ==
    [icao24 |-> icao24, timestamp |-> pd_to_datetime(mintime), lat |-> n,
     altitude |-> IF present THEN 1000 ELSE NULL,
     track |-> IF present THEN 90 ELSE NULL]

\* A row redecode_velocity returns
Velocity(icao24, mintime, n, present) ==
    [icao24 |-> icao24, timestamp |-> pd_to_datetime(mintime), velocity |-> n,
     track |-> IF present THEN 180 ELSE NULL,
     vertical_rate |-> IF present THEN 0 ELSE NULL,
     geominurbaro |-> IF present THEN 50 ELSE NULL]

\* A row redecode_identification returns
Identification(icao24, mintime, n) ==
    [icao24 |-> icao24, timestamp |-> pd_to_datetime(mintime), callsign |-> n]

\* A row redecode_rollcall returns
Rollcall(icao24, mintime, n) ==
    [icao24 |-> icao24, timestamp |-> pd_to_datetime(mintime),
     mintime |-> mintime, rawmsg |-> n]

\* The row of `right` that merge_asof(direction="nearest") matches to the
\* left row l (0: none): of the last row at or before l and the first row at
\* or after l, of the same icao24 and within the tolerance, the nearer one,
\* and the earlier one when they are equally near.
AsofNearest_backward(l, right, tolerance) ==
    LET back == {j \in 1..Len(right) :
                    /\ right[j].icao24 = l.icao24
                    /\ right[j].timestamp <= l.timestamp
                    /\ \A k \in (j + 1)..Len(right) :
                            right[k].icao24 = l.icao24 =>
                                right[k].timestamp > l.timestamp}
        b == {j \in back : l.timestamp - right[j].timestamp <= tolerance}
    IN  IF b # {} THEN CHOOSE j \in b : TRUE ELSE 0

AsofNearest(l, right, tolerance) ==
    LET back == {j \in 1..Len(right) :
                    /\ right[j].icao24 = l.icao24
                    /\ right[j].timestamp <= l.timestamp
                    /\ \A k \in (j + 1)..Len(right) :
                            right[k].icao24 = l.icao24 =>
                                right[k].timestamp > l.timestamp}
        forw == {j \in 1..Len(right) :
                    /\ right[j].icao24 = l.icao24
                    /\ right[j].timestamp >= l.timestamp
                    /\ \A k \in 1..(j - 1) :
                            right[k].icao24 = l.icao24 =>
                                right[k].timestamp < l.timestamp}
        b == {j \in back : l.timestamp - right[j].timestamp <= tolerance}
        f == {j \in forw : right[j].timestamp - l.timestamp <= tolerance}
    IN  IF b # {} /\ f # {}
        THEN LET bj == CHOOSE j \in b : TRUE
                 fj == CHOOSE j \in f : TRUE
             IN  IF l.timestamp - right[bj].timestamp
                        <= right[fj].timestamp - l.timestamp
                 THEN bj ELSE fj
        ELSE IF b # {} THEN CHOOSE j \in b : TRUE
        ELSE IF f # {} THEN CHOOSE j \in f : TRUE
        ELSE 0

\* pd.merge_asof(left, right, on="timestamp", by="icao24",
\*               direction="nearest", tolerance=pd.Timedelta(seconds=5)):
\* a left join; for each row of `left`, in order, the row and its match
merge_asof_inner(left, right) ==
    SelectSeq([i \in 1..Len(left) |->
                [left |-> left[i],
                 right |-> AsofNearest(left[i], right, Timedelta(FuseTolerance))]],
              LAMBDA m : m.right # 0)

merge_asof(left, right) ==
    [i \in 1..Len(left) |->
        [left |-> left[i],
         right |-> AsofNearest(left[i], right, Timedelta(FuseTolerance))]]

\* r with the columns `columns`, the columns it has not being missing
Reindex(r, columns) ==
    [c \in columns |-> IF c \in DOMAIN r THEN r[c] ELSE NULL]

\* the sum of two values, missing when one of them is
Add_default_zero(a, b) ==
    IF a = NULL /\ b = NULL THEN NULL
    ELSE (IF a = NULL THEN 0 ELSE a) + (IF b = NULL THEN 0 ELSE b)

Add(a, b) == IF a = NULL \/ b = NULL THEN NULL ELSE a + b

\* np.where(pd.isna(track_pos), track_vel, track_pos)
Where_velocity_first(track_pos, track_vel) ==
    IF track_vel = NULL THEN track_pos ELSE track_vel

Where(track_pos, track_vel) == IF track_pos = NULL THEN track_vel ELSE track_pos

\* Merge velocity data: the join with the columns velocity, track,
\* vertical_rate, geominurbaro of vel_data (track is in both tables:
\* track_pos, track_vel), the combined track and the geoaltitude
FuseVelocity(pos, vel) ==
    LET merged == merge_asof(pos, vel)
        row(m) ==
            LET v == IF m.right = 0
                     THEN [velocity |-> NULL, track |-> NULL,
                           vertical_rate |-> NULL, geominurbaro |-> NULL]
                     ELSE vel[m.right]
            IN  [icao24 |-> m.left.icao24, timestamp |-> m.left.timestamp,
                 lat |-> m.left.lat, altitude |-> m.left.altitude,
                 velocity |-> v.velocity, vertical_rate |-> v.vertical_rate,
                 geominurbaro |-> v.geominurbaro,
                 track |-> Where(m.left.track, v.track),
                 geoaltitude |-> Add(m.left.altitude, v.geominurbaro)]
    IN  [i \in 1..Len(merged) |-> row(merged[i])]

\* Merge identification data: the join with the column callsign
FuseIdentification(pos, ident) ==
    LET merged == merge_asof(pos, ident)
    IN  [i \in 1..Len(merged) |->
            merged[i].left @@
            [callsign |-> IF merged[i].right = 0 THEN NULL
                          ELSE ident[merged[i].right].callsign]]

\* include_rollcall: the join with the columns of rollcall_data
FuseRollcall(pos, rollcall) ==
    LET merged == merge_asof(pos, rollcall)
    IN  [i \in 1..Len(merged) |->
            merged[i].left @@
            [mintime |-> IF merged[i].right = 0 THEN NULL
                         ELSE rollcall[merged[i].right].mintime,
             rawmsg |-> IF merged[i].right = 0 THEN NULL
                        ELSE rollcall[merged[i].right].rawmsg]]

\* pd.concat([pos_data, rollcall_data], axis=0): the rows of both tables,
\* with the columns of both
ConcatRollcall(pos, rollcall) ==
    LET columns == DOMAIN pos[1] \cup DOMAIN rollcall[1]
    IN  [i \in 1..Len(pos) |-> Reindex(pos[i], columns)]
            \o [i \in 1..Len(rollcall) |-> Reindex(rollcall[i], columns)]

\* .sort_values(["icao24", "timestamp"]): the orders of the rows S of t the
\* sort can produce (it is not stable)
KeyLeq(a, b) ==
    \/ Icao24Rank(a.icao24) < Icao24Rank(b.icao24)
    \/ a.icao24 = b.icao24 /\ a.timestamp <= b.timestamp

RECURSIVE SortOrdersByKey(_, _)
SortOrdersByKey(t, S) ==
    IF S = {} THEN {<<>>}
    ELSE UNION {{<<t[i]>> \o rest : rest \in SortOrdersByKey(t, S \ {i})} :
                    i \in {j \in S : \A k \in S : KeyLeq(t[j], t[k])}}

sort_values_timestamp(t) == SortOrders(t, 1..Len(t))

sort_values_icao24_timestamp(t) == SortOrdersByKey(t, 1..Len(t))

\* pos_data["icao24"].unique().tolist()
Addresses(t) == {t[i].icao24 : i \in 1..Len(t)}

\* fetched once trino.rawdata has been called for `table` with the
\* addresses icao24 (none: the call with bounds instead); the rows of one
\* call come one by one
Requested(table, addresses) ==
    IF \E i \in 1..Len(fetched) : fetched[i].table = table THEN fetched
    ELSE Append(fetched, [table |-> table, icao24 |-> addresses])

\* the samples of the three other streams fetched so far
Samples == Len(vel_data) + Len(ident_data) + Len(rollcall_data)

\* redecode_position: its table, row by row, sorted by timestamp
FetchPosition ==
    /\ pc = "position"
    /\ Len(positions) < MaxPositions
    /\ \E icao24 \in Icao24s, mintime \in PositionTimes, present \in BOOLEAN :
            /\ Len(positions) > 0 =>
                    positions[Len(positions)].timestamp <= pd_to_datetime(mintime)
            /\ positions' = Append(positions,
                    Position(icao24, mintime, Len(positions) + 1, present))
    /\ UNCHANGED <<pc, ret, pos_data, vel_data, ident_data, rollcall_data,
                   include_rollcall>>
    /\ UNCHANGED decodeVars
    /\ UNCHANGED argVars
    /\ fetched' = Requested("position", {query_icao24})
    /\ UNCHANGED clientVars

\* if pos_data is None or pos_data.shape[0] == 0: return None
ReturnNone_continues ==
    /\ pc = "position"
    /\ Len(positions) = 0
    /\ pc' = "velocity"
    /\ UNCHANGED <<ret, positions, pos_data, vel_data, ident_data,
                   rollcall_data, include_rollcall>>
    /\ UNCHANGED decodeVars
    /\ UNCHANGED argVars
    /\ fetched' = Requested("position", {query_icao24})
    /\ UNCHANGED clientVars

ReturnNone ==
    /\ pc = "position"
    /\ Len(positions) = 0
    /\ pc' = "none"
    /\ UNCHANGED <<ret, positions, pos_data, vel_data, ident_data,
                   rollcall_data, include_rollcall>>
    /\ UNCHANGED decodeVars
    /\ UNCHANGED argVars
    /\ fetched' = Requested("position", {query_icao24})
    /\ UNCHANGED clientVars

\* pos_data = _normalize_icao24_dtype(pos_data)
NormalizePositions ==
    /\ pc = "position"
    /\ Len(positions) > 0
    /\ pos_data' = normalize_icao24_dtype(positions)
    /\ pc' = "velocity"
    /\ UNCHANGED <<ret, positions, vel_data, ident_data, rollcall_data,
                   include_rollcall>>
    /\ UNCHANGED decodeVars
    /\ UNCHANGED argVars
    /\ fetched' = Requested("position", {query_icao24})
    /\ UNCHANGED clientVars

\* redecode_velocity: its table, row by row, sorted by timestamp
FetchVelocity ==
    /\ pc = "velocity"
    /\ Samples < MaxSamples
    /\ \E icao24 \in Icao24s, mintime \in SampleTimes, present \in BOOLEAN :
            /\ Len(vel_data) > 0 =>
                    vel_data[Len(vel_data)].timestamp <= pd_to_datetime(mintime)
            /\ vel_data' = Append(vel_data,
                    Velocity(icao24, mintime, Len(vel_data) + 1, present))
    /\ UNCHANGED <<pc, ret, positions, pos_data, ident_data, rollcall_data,
                   include_rollcall>>
    /\ UNCHANGED decodeVars
    /\ UNCHANGED argVars
    /\ fetched' = Requested("velocity", Addresses(pos_data))
    /\ UNCHANGED clientVars

\* Merge velocity data
MergeVelocity ==
    /\ pc = "velocity"
    /\ pos_data' = IF Len(vel_data) > 0
                   THEN FuseVelocity(pos_data, normalize_icao24_dtype(vel_data))
                   ELSE pos_data
    /\ pc' = "identification"
    /\ UNCHANGED <<ret, positions, vel_data, ident_data, rollcall_data,
                   include_rollcall>>
    /\ UNCHANGED decodeVars
    /\ UNCHANGED argVars
    /\ fetched' = Requested("velocity", Addresses(pos_data))
    /\ UNCHANGED clientVars

\* redecode_identification: its table, row by row, sorted by timestamp
FetchIdentification ==
    /\ pc = "identification"
    /\ Samples < MaxSamples
    /\ \E icao24 \in Icao24s, mintime \in SampleTimes :
            /\ Len(ident_data) > 0 =>
                    ident_data[Len(ident_data)].timestamp <= pd_to_datetime(mintime)
            /\ ident_data' = Append(ident_data,
                    Identification(icao24, mintime, Len(ident_data) + 1))
    /\ UNCHANGED <<pc, ret, positions, pos_data, vel_data, rollcall_data,
                   include_rollcall>>
    /\ UNCHANGED decodeVars
    /\ UNCHANGED argVars
    /\ fetched' = Requested("identification", Addresses(pos_data))
    /\ UNCHANGED clientVars

\* Merge identification data
MergeIdentification ==
    /\ pc = "identification"
    /\ pos_data' = IF Len(ident_data) > 0
                   THEN FuseIdentification(pos_data,
                                           normalize_icao24_dtype(ident_data))
                   ELSE pos_data
    /\ pc' = "rollcall"
    /\ UNCHANGED <<ret, positions, vel_data, ident_data, rollcall_data,
                   include_rollcall>>
    /\ UNCHANGED decodeVars
    /\ UNCHANGED argVars
    /\ fetched' = Requested("identification", Addresses(pos_data))
    /\ UNCHANGED clientVars

\* redecode_rollcall: its table, row by row, sorted by timestamp
FetchRollcall ==
    /\ pc = "rollcall"
    /\ Samples < MaxSamples
    /\ \E icao24 \in Icao24s, mintime \in SampleTimes :
            /\ Len(rollcall_data) > 0 =>
                    rollcall_data[Len(rollcall_data)].timestamp
                        <= pd_to_datetime(mintime)
            /\ rollcall_data' = Append(rollcall_data,
                    Rollcall(icao24, mintime, Len(rollcall_data) + 1))
    /\ UNCHANGED <<pc, ret, positions, pos_data, vel_data, ident_data,
                   include_rollcall>>
    /\ UNCHANGED decodeVars
    /\ UNCHANGED argVars
    /\ fetched' = Requested("rollcall", Addresses(pos_data))
    /\ UNCHANGED clientVars

\* Optionally merge rollcall data, and
\* return pos_data.sort_values(["icao24", "timestamp"])
MergeRollcall_flag_ignored ==
    /\ pc = "rollcall"
    /\ pos_data' = IF Len(rollcall_data) = 0 THEN pos_data
                   ELSE IF TRUE
                   THEN FuseRollcall(pos_data,
                                     normalize_icao24_dtype(rollcall_data))
                   ELSE ConcatRollcall(pos_data,
                                       normalize_icao24_dtype(rollcall_data))
    /\ ret' \in sort_values_icao24_timestamp(pos_data')
    /\ pc' = "returned"
    /\ UNCHANGED <<positions, vel_data, ident_data, rollcall_data,
                   include_rollcall>>
    /\ UNCHANGED decodeVars
    /\ UNCHANGED argVars
    /\ fetched' = Requested("rollcall", Addresses(pos_data))
    /\ UNCHANGED clientVars

MergeRollcall ==
    /\ pc = "rollcall"
    /\ pos_data' = IF Len(rollcall_data) = 0 THEN pos_data
                   ELSE IF include_rollcall
                   THEN FuseRollcall(pos_data,
                                     normalize_icao24_dtype(rollcall_data))
                   ELSE ConcatRollcall(pos_data,
                                       normalize_icao24_dtype(rollcall_data))
    /\ ret' \in sort_values_icao24_timestamp(pos_data')
    /\ pc' = "returned"
    /\ UNCHANGED <<positions, vel_data, ident_data, rollcall_data,
                   include_rollcall>>
    /\ UNCHANGED decodeVars
    /\ UNCHANGED argVars
    /\ fetched' = Requested("rollcall", Addresses(pos_data))
    /\ UNCHANGED clientVars

\* rebuild(start, stop, icao24="400a0e") at the call of trino.rawdata for
\* the position table
InitRebuild ==
    /\ pc = "position"
    /\ df = <<>>
    /\ pos_pairs = <<>>
    /\ ret = <<>>
    /\ positions = <<>>
    /\ pos_data = <<>>
    /\ vel_data = <<>>
    /\ ident_data = <<>>
    /\ rollcall_data = <<>>
    /\ include_rollcall \in BOOLEAN
    /\ decoder = "None"
    /\ query_icao24 = "400a0e"
    /\ bounds = "None"
    /\ fetched = <<>>
    /\ NoClient

NextRebuild ==
    \/ FetchPosition
    \/ ReturnNone
    \/ NormalizePositions
    \/ FetchVelocity
    \/ MergeVelocity
    \/ FetchIdentification
    \/ MergeIdentification
    \/ FetchRollcall
    \/ MergeRollcall

SpecRebuild == InitRebuild /\ [][NextRebuild]_vars

\* redecode_velocity, when the velocity table spells the address of an
\* aircraft in capital letters: a row of its table
FetchVelocityUpperCase ==
    /\ pc = "velocity"
    /\ Samples < MaxSamples
    /\ \E mintime \in SampleTimes, present \in BOOLEAN :
            /\ Len(vel_data) > 0 =>
                    vel_data[Len(vel_data)].timestamp <= pd_to_datetime(mintime)
            /\ vel_data' = Append(vel_data,
                    Velocity("400A0E", mintime, Len(vel_data) + 1, present))
    /\ UNCHANGED <<pc, ret, positions, pos_data, ident_data, rollcall_data,
                   include_rollcall>>
    /\ UNCHANGED decodeVars
    /\ UNCHANGED argVars
    /\ fetched' = Requested("velocity", Addresses(pos_data))
    /\ UNCHANGED clientVars

NextSpelling == NextRebuild \/ FetchVelocityUpperCase

SpecSpelling == InitRebuild /\ [][NextSpelling]_vars

(***************************************************************************)
(* Rebuild.rebuild: from the call to the position table                    *)
(***************************************************************************)

\* what rebuild can be given as decoder, icao24 and bounds
Decoders == {"None", "pymodes", "rs1090", "unknown"}
Icao24Args == {"None", "400a0e"}
BoundsArgs == {"None", "bounds"}

\* raise ValueError(f"Unknown decoder string: {decoder}. ...")
UnknownDecoder == "ValueError: Unknown decoder string"

\* raise ValueError("Either 'icao24' or 'bounds' must be specified")
NoFilter == "ValueError: Either 'icao24' or 'bounds' must be specified"

\* rebuild: if isinstance(decoder, str): the decoder of that name, or
\* ValueError
ResolveDecoder_fallback ==
    /\ pc = "rebuild"
    /\ decoder' = IF decoder = "pymodes" THEN "PyModesDecoder"
                  ELSE IF decoder = "rs1090" THEN "Rs1090Decoder"
                  ELSE decoder
    /\ pc' = "redecode_position"
    /\ UNCHANGED <<ret, positions, pos_data, vel_data, ident_data,
                   rollcall_data, include_rollcall, query_icao24, bounds, fetched>>
    /\ UNCHANGED decodeVars
    /\ UNCHANGED clientVars

ResolveDecoder ==
    /\ pc = "rebuild"
    /\ IF decoder = "pymodes"
       THEN decoder' = "PyModesDecoder" /\ pc' = "redecode_position"
       ELSE IF decoder = "rs1090"
       THEN decoder' = "Rs1090Decoder" /\ pc' = "redecode_position"
       ELSE IF decoder = "None"
       THEN decoder' = decoder /\ pc' = "redecode_position"
       ELSE decoder' = decoder /\ pc' = UnknownDecoder
    /\ UNCHANGED <<ret, positions, pos_data, vel_data, ident_data,
                   rollcall_data, include_rollcall, query_icao24, bounds, fetched>>
    /\ UNCHANGED decodeVars
    /\ UNCHANGED clientVars

\* redecode_position: if icao24 is None and bounds is None: raise ValueError
CheckFilter_pass ==
    /\ pc = "redecode_position"
    /\ pc' = "bounds"
    /\ UNCHANGED <<ret, positions, pos_data, vel_data, ident_data,
                   rollcall_data, include_rollcall, fetched>>
    /\ UNCHANGED argVars
    /\ UNCHANGED decodeVars
    /\ UNCHANGED clientVars

CheckFilter ==
    /\ pc = "redecode_position"
    /\ pc' = IF query_icao24 = "None" /\ bounds = "None" THEN NoFilter
             ELSE "bounds"
    /\ UNCHANGED <<ret, positions, pos_data, vel_data, ident_data,
                   rollcall_data, include_rollcall, fetched>>
    /\ UNCHANGED argVars
    /\ UNCHANGED decodeVars
    /\ UNCHANGED clientVars

\* redecode_position: Get icao24s from bounds if needed: with bounds and
\* without icao24, the position table within the bounds is requested; its
\* icao24 are the ones to query, and without a row redecode_position and
\* then rebuild return None
ResolveBounds ==
    /\ pc = "bounds"
    /\ IF bounds # "None" /\ query_icao24 = "None"
       THEN /\ fetched' = Requested("bounds", {})
            /\ \E pos_sample \in {"None"} \cup Icao24s :
                    /\ query_icao24' = pos_sample
                    /\ pc' = IF pos_sample = "None" THEN "none" ELSE "position"
       ELSE /\ pc' = "position"
            /\ UNCHANGED <<fetched, query_icao24>>
    /\ UNCHANGED <<ret, positions, pos_data, vel_data, ident_data,
                   rollcall_data, include_rollcall, decoder, bounds>>
    /\ UNCHANGED decodeVars
    /\ UNCHANGED clientVars

InitCall ==
    /\ pc = "rebuild"
    /\ df = <<>>
    /\ pos_pairs = <<>>
    /\ ret = <<>>
    /\ positions = <<>>
    /\ pos_data = <<>>
    /\ vel_data = <<>>
    /\ ident_data = <<>>
    /\ rollcall_data = <<>>
    /\ include_rollcall \in BOOLEAN
    /\ decoder \in Decoders
    /\ query_icao24 \in Icao24Args
    /\ bounds \in BoundsArgs
    /\ fetched = <<>>
    /\ NoClient

NextCall ==
    \/ ResolveDecoder
    \/ CheckFilter
    \/ ResolveBounds
    \/ FetchPosition
    \/ ReturnNone
    \/ NormalizePositions

SpecCall == InitCall /\ [][NextCall]_vars

(***************************************************************************)
(* The whole call: rebuild from its arguments to its return                *)
(***************************************************************************)

\* rebuild(start, stop, icao24, bounds, include_rollcall) without decoder
InitStages ==
    /\ InitCall
    /\ decoder = "None"

NextStages ==
    \/ ResolveDecoder
    \/ CheckFilter
    \/ ResolveBounds
    \/ FetchPosition
    \/ ReturnNone
    \/ NormalizePositions
    \/ FetchVelocity
    \/ MergeVelocity
    \/ FetchIdentification
    \/ MergeIdentification
    \/ FetchRollcall
    \/ MergeRollcall

SpecStages == InitStages /\ [][NextStages]_vars

(***************************************************************************)
(* Rs1090Decoder.decode: the records of rs1090.decode assembled in batches *)
(***************************************************************************)

MaxMessages == 4
MaxChunk == 2

\* the sizes n given to batched: the one of Rs1090Decoder.decode, and small
\* ones, for which a table of MaxMessages rows has several batches
ChunkSizes == (1..MaxChunk) \cup {BatchSize}

\* pd.DataFrame.from_records(d): the records as rows, labelled 0, 1, ...
from_records(d) ==
    [k \in 1..Len(d) |->
        [index |-> k - 1, row |-> d[k].row, timestamp |-> d[k].timestamp]]

\* df.assign(timestamp=pd.to_datetime(df.timestamp, unit="s", utc=True))
assign_timestamp(t) ==
    [k \in 1..Len(t) |->
        [t[k] EXCEPT !.timestamp = pd_to_datetime(t[k].timestamp)]]

\* pd.concat(pd.DataFrame.from_records(d) for d in batched(decoded, n))
Chunked(d, n) ==
    pd_concat([b \in 1..Len(batched(d, n)) |-> from_records(batched(d, n)[b])])

\* the table given to Rs1090Decoder.decode, row by row
FetchMessage ==
    /\ pc = "rs1090"
    /\ Len(df) < MaxMessages
    /\ \E mintime \in Times :
            /\ Len(df) > 0 => df[Len(df)].mintime <= mintime
            /\ df' = Append(df, [rawmsg |-> Len(df) + 1, mintime |-> mintime])
    /\ UNCHANGED <<pc, pos_pairs, ret>>
    /\ UNCHANGED rebuildVars
    /\ UNCHANGED clientVars

\* Rs1090Decoder.decode(df); pd.concat raises ValueError("No objects to
\* concatenate") when batched yields no batch
Rs1090DecoderDecode ==
    /\ pc = "rs1090"
    /\ \E d \in Rs1090Records(df), n \in ChunkSizes :
            /\ records' = d
            /\ chunk' = n
            /\ IF Len(batched(d, n)) = 0
               THEN pc' = "raised" /\ ret' = ret
               ELSE pc' = "returned" /\ ret' = assign_timestamp(Chunked(d, n))
    /\ UNCHANGED <<df, pos_pairs>>
    /\ UNCHANGED rebuildVars
    /\ UNCHANGED <<_token, now, trino_username, cache_files, call, retry,
                   response, sent>>

InitChunks ==
    /\ pc = "rs1090"
    /\ df = <<>>
    /\ pos_pairs = <<>>
    /\ ret = <<>>
    /\ NoRebuild
    /\ NoClient

NextChunks == FetchMessage \/ Rs1090DecoderDecode

SpecChunks == InitChunks /\ [][NextChunks]_vars

(***************************************************************************)
(* Trino.token: the access token and its expiry                            *)
(***************************************************************************)

\* the clock and the expiry of a token are in minutes
MaxNow == 5
MaxLifetime == 2

\* now = pd.Timestamp("now", tz="utc") - pd.Timedelta("1 min")
Margin == 1

\* the answers of the authentication server
StatusCodes == {200, 400, 401, 500}

\* what a call of token() became: the clock at the call, self._token before
\* it, whether httpx.post was called and its answer, and the value returned
\* (NULL: None) or the exception
TokenCall(requested, status_code, result, raised) ==
    [method |-> "token", at |-> now, cached |-> _token,
     requested |-> requested, status_code |-> status_code,
     result |-> result, raised |-> raised]

Tick ==
    /\ pc = "trino"
    /\ now < MaxNow
    /\ now' = now + 1
    /\ UNCHANGED <<pc, ret>>
    /\ UNCHANGED decodeVars
    /\ UNCHANGED rebuildVars
    /\ UNCHANGED <<records, chunk, _token, trino_username, cache_files, call,
                   retry, response, sent>>

\* Trino.token(); the access token issued at the minute `now` is called now
token ==
    /\ pc = "trino"
    /\ IF trino_username = "None"
       THEN /\ _token' = NoToken
            /\ call' = TokenCall(FALSE, 0, NULL, FALSE)
       ELSE IF _token # NoToken /\ _token.exp < now - Margin
       THEN /\ _token' = _token
            /\ call' = TokenCall(FALSE, 0, _token.access_token, FALSE)
       ELSE \E status_code \in StatusCodes, lifetime \in 1..MaxLifetime :
                IF status_code \in {400, 401}
                THEN /\ _token' = _token
                     /\ call' = TokenCall(TRUE, status_code, NULL, FALSE)
                ELSE IF status_code # 200
                THEN /\ _token' = _token
                     /\ call' = TokenCall(TRUE, status_code, NULL, TRUE)
                ELSE /\ _token' = [access_token |-> now, exp |-> now + lifetime]
                     /\ call' = TokenCall(TRUE, status_code, now, FALSE)
    /\ UNCHANGED <<pc, ret>>
    /\ UNCHANGED decodeVars
    /\ UNCHANGED rebuildVars
    /\ UNCHANGED <<records, chunk, now, trino_username, cache_files, retry,
                   response, sent>>

\* a Trino object, with or without credentials in the configuration
InitToken ==
    /\ pc = "trino"
    /\ df = <<>>
    /\ pos_pairs = <<>>
    /\ ret = <<>>
    /\ NoRebuild
    /\ records = <<>>
    /\ chunk = 0
    /\ _token = NoToken
    /\ now = 0
    /\ trino_username \in {"None", "user"}
    /\ cache_files = {}
    /\ call = [method |-> "None"]
    /\ retry = 0
    /\ response = "None"
    /\ sent = 0

NextToken == Tick \/ token

SpecToken == InitToken /\ [][NextToken]_vars

(***************************************************************************)
(* Trino.query and its cache; flightlist and history                       *)
(***************************************************************************)

\* what the database can answer to one query: the tables 1..MaxTables
MaxTables == 2
Tables == 1..MaxTables

\* the texts given to Trino.query, each with its parameters
Statements == {"SELECT 1", "SELECT 2"}

\* cache_file: (cache_path / digest).with_suffix(suffix), the digest being
\* the md5 of the compiled query and its parameters, the suffix being
\* ".parquet.gz" if compress else ".parquet"
CacheFile(stmt, compress) == [query |-> stmt, compress |-> compress]

\* cache_file.exists()
Exists(stmt, compress) ==
    \E f \in cache_files : f.file = CacheFile(stmt, compress)

\* pd.read_parquet(cache_file)
read_parquet(stmt, compress) ==
    (CHOOSE f \in cache_files : f.file = CacheFile(stmt, compress)).table

\* cache_file.unlink(missing_ok=True)
Unlink(stmt, compress) ==
    {f \in cache_files : f.file # CacheFile(stmt, compress)}

\* what a call became: whether connect.execute was called, the exception
\* raised ("None": none), the table returned (NULL: none) and the files of
\* the cache before the call
Outcome(method, stmt, cached, compress, contacted, error, result) ==
    [method |-> method, query |-> stmt, cached |-> cached,
     compress |-> compress, contacted |-> contacted, error |-> error,
     result |-> result, before |-> cache_files]

Query_keep_file(method, stmt, cached, compress) ==
    IF Exists(stmt, compress) /\ cached
    THEN /\ call' = Outcome(method, stmt, cached, compress, FALSE, "None",
                            read_parquet(stmt, compress))
         /\ cache_files' = cache_files
    ELSE \/ /\ call' = Outcome(method, stmt, cached, compress, TRUE,
                               "DBAPIError", NULL)
            /\ cache_files' = cache_files
         \/ \E df_table \in Tables :
                /\ call' = Outcome(method, stmt, cached, compress, TRUE,
                                   "None", df_table)
                /\ cache_files' =
                      IF cached
                      THEN Unlink(stmt, compress) \cup
                           {[file |-> CacheFile(stmt, compress),
                             table |-> df_table]}
                      ELSE cache_files

\* Trino.query(query, cached, compress), called by `method`: the cached
\* table, or the table of the database, saved if cached; connect.execute
\* raising DBAPIError ends the call with that error or a RuntimeError
Query(method, stmt, cached, compress) ==
    IF Exists(stmt, compress) /\ cached
    THEN /\ call' = Outcome(method, stmt, cached, compress, FALSE, "None",
                            read_parquet(stmt, compress))
         /\ cache_files' = cache_files
    ELSE \/ /\ call' = Outcome(method, stmt, cached, compress, TRUE,
                               "DBAPIError", NULL)
            /\ cache_files' = Unlink(stmt, compress)
         \/ \E df_table \in Tables :
                /\ call' = Outcome(method, stmt, cached, compress, TRUE,
                                   "None", df_table)
                /\ cache_files' =
                      IF cached
                      THEN Unlink(stmt, compress) \cup
                           {[file |-> CacheFile(stmt, compress),
                             table |-> df_table]}
                      ELSE Unlink(stmt, compress)

\* a call of Trino.query, by Trino.rawdata for instance
query ==
    /\ pc = "trino"
    /\ \E stmt \in Statements, cached \in BOOLEAN, compress \in BOOLEAN :
            Query("query", stmt, cached, compress)
    /\ UNCHANGED <<pc, ret>>
    /\ UNCHANGED decodeVars
    /\ UNCHANGED rebuildVars
    /\ UNCHANGED <<records, chunk, _token, now, trino_username, retry,
                   response, sent>>

\* a Trino object without credentials in the configuration: token(), called
\* by connect(), asks for nothing and leaves _token None
InitQuery ==
    /\ pc = "trino"
    /\ df = <<>>
    /\ pos_pairs = <<>>
    /\ ret = <<>>
    /\ NoRebuild
    /\ NoClient

NextQuery == query

SpecQuery == InitQuery /\ [][NextQuery]_vars

(***************************************************************************)
(* Trino.flightlist and Trino.history: the airport parameters              *)
(***************************************************************************)

\* bound of the exploration: the calls are made on a cache of fewer files
MaxFiles == 2

\* the values of airport, departure_airport and arrival_airport ("None":
\* None), and of limit (NULL: None)
Airports == {"None", "ESSA"}
Limits == {NULL, 3}

Conflict_arrival_only(airport, departure_airport, arrival_airport) ==
    IF airport # "None" /\ arrival_airport # "None"
    THEN "airport may not be set if arrival_airport is"
    ELSE "None"

\* if airport is not None and arrival_airport is not None: raise ...
\* if airport is not None and departure_airport is not None: raise ...
Conflict(airport, departure_airport, arrival_airport) ==
    IF airport # "None" /\ arrival_airport # "None"
    THEN "airport may not be set if arrival_airport is"
    ELSE IF airport # "None" /\ departure_airport # "None"
    THEN "airport may not be set if departure_airport is"
    ELSE "None"

\* the statement built from the parameters
Stmt(table, airport, departure_airport, arrival_airport, limit) ==
    [table |-> table, airport |-> airport,
     departure_airport |-> departure_airport,
     arrival_airport |-> arrival_airport, limit |-> limit]

\* Trino.flightlist(start, stop, departure_airport, arrival_airport,
\* airport, cached, compress, limit)
flightlist ==
    /\ pc = "trino"
    /\ Cardinality(cache_files) < MaxFiles
    /\ \E airport \in Airports, departure_airport \in Airports,
          arrival_airport \in Airports, limit \in Limits,
          cached \in BOOLEAN, compress \in BOOLEAN :
            LET stmt == Stmt("flights_data4", airport, departure_airport,
                             arrival_airport, limit)
                error == Conflict(airport, departure_airport, arrival_airport)
            IN  IF error # "None"
                THEN /\ call' = Outcome("flightlist", stmt, cached, compress,
                                        FALSE, error, NULL)
                     /\ cache_files' = cache_files
                ELSE Query("flightlist", stmt, cached, compress)
    /\ UNCHANGED <<pc, ret>>
    /\ UNCHANGED decodeVars
    /\ UNCHANGED rebuildVars
    /\ UNCHANGED <<records, chunk, _token, now, trino_username, retry,
                   response, sent>>

\* Trino.history(start, stop, departure_airport, arrival_airport, airport,
\* cached, compress, limit): without airport parameter the state vectors,
\* otherwise their join with the flight table
history ==
    /\ pc = "trino"
    /\ Cardinality(cache_files) < MaxFiles
    /\ \E airport \in Airports, departure_airport \in Airports,
          arrival_airport \in Airports, limit \in Limits,
          cached \in BOOLEAN, compress \in BOOLEAN :
            LET count_airports_params ==
                    Cardinality({x \in {"airport", "departure", "arrival"} :
                        \/ x = "airport" /\ airport # "None"
                        \/ x = "departure" /\ departure_airport # "None"
                        \/ x = "arrival" /\ arrival_airport # "None"})
                stmt == Stmt(IF count_airports_params = 0
                             THEN "state_vectors_data4"
                             ELSE "state_vectors_data4 JOIN flights_data4",
                             airport, departure_airport, arrival_airport,
                             limit)
                error == IF count_airports_params = 0 THEN "None"
                         ELSE Conflict(airport, departure_airport,
                                       arrival_airport)
            IN  IF error # "None"
                THEN /\ call' = Outcome("history", stmt, cached, compress,
                                        FALSE, error, NULL)
                     /\ cache_files' = cache_files
                ELSE Query("history", stmt, cached, compress)
    /\ UNCHANGED <<pc, ret>>
    /\ UNCHANGED decodeVars
    /\ UNCHANGED rebuildVars
    /\ UNCHANGED <<records, chunk, _token, now, trino_username, retry,
                   response, sent>>

NextAirports == flightlist \/ history

SpecAirports == InitQuery /\ [][NextAirports]_vars

(***************************************************************************)
(* REST.get: the request and its retries                                   *)
(***************************************************************************)

\* bounds: the parameter retry of the first call, and the count of the
\* requests, which stays at MaxSent once it is reached
MaxRetry == 3
MaxSent == 6

\* the answers of the server: status, the header
\* X-Rate-Limit-Retry-After-Seconds (NULL: absent), and whether the body is
\* JSON
Responses ==
    [status_code : {200, 404, 429, 503}, retry_after : {NULL, 1},
     json : BOOLEAN]

\* REST.get(query, retry): one request and what follows its answer; the
\* call of self.get inside it is the next step
get ==
    /\ pc = "get"
    /\ \E c \in Responses :
            /\ response' = c
            /\ sent' = IF sent < MaxSent THEN sent + 1 ELSE sent
            /\ IF c.status_code = 200
               THEN /\ pc' = IF c.json THEN "returned" ELSE "JSONDecodeError"
                    /\ retry' = retry
               ELSE IF c.status_code = 503 /\ retry > 0
               THEN /\ retry' = retry - 1
                    /\ pc' = "get"
               ELSE IF c.status_code = 429 /\ c.retry_after # NULL
               THEN /\ retry' = retry
                    /\ pc' = "get"
               ELSE /\ pc' = "HTTPStatusError"
                    /\ retry' = retry
    /\ UNCHANGED ret
    /\ UNCHANGED decodeVars
    /\ UNCHANGED rebuildVars
    /\ UNCHANGED <<records, chunk, _token, now, trino_username, cache_files,
                   call>>

\* REST().get(query, retry=call.retry)
InitRest ==
    /\ pc = "get"
    /\ df = <<>>
    /\ pos_pairs = <<>>
    /\ ret = <<>>
    /\ NoRebuild
    /\ records = <<>>
    /\ chunk = 0
    /\ _token = NoToken
    /\ now = 0
    /\ trino_username = "None"
    /\ cache_files = {}
    /\ retry \in 0..MaxRetry
    /\ call = [method |-> "get", retry |-> retry]
    /\ response = [status_code |-> 0, retry_after |-> NULL, json |-> FALSE]
    /\ sent = 0

NextRest == get

SpecRest == InitRest /\ [][NextRest]_vars

\* the call goes on as long as it has not returned or raised
SpecRestFair == SpecRest /\ WF_vars(get)

(***************************************************************************)
(* The pairing step: claims                                                *)
(***************************************************************************)

Rows(t) == {t[i] : i \in 1..Len(t)}

Paired == pc # "pair"

\* The frame has a value in every column the pairing keeps.
Complete(f) == f.mintime # NULL /\ f.rawmsg # NULL /\ f.altitude # NULL

\* The frames of the other parity of the same aircraft as frame i of df.
Opposite(i) ==
    {j \in 1..Len(df) : df[j].icao24 = df[i].icao24 /\ df[j].odd # df[i].odd}

\* Those within the tolerance, earlier or later.
Partners(i) ==
    {j \in Opposite(i) :
        Abs(df[j].timestamp - df[i].timestamp) <= Timedelta(PairTolerance)}

\* Those of them nearest in time.
Nearest(i) ==
    {j \in Partners(i) : \A k \in Partners(i) :
        Abs(df[j].timestamp - df[i].timestamp)
            <= Abs(df[k].timestamp - df[i].timestamp)}

\* Those at or before frame i.
Before(i) == {j \in Opposite(i) : df[j].timestamp <= df[i].timestamp}

\* pos_pairs holds frames i and j of df as a pair.
IsPair(i, j) ==
    LET o == IF df[i].odd THEN df[i] ELSE df[j]
        e == IF df[i].odd THEN df[j] ELSE df[i]
    IN  \E r \in Rows(pos_pairs) :
            r.rawmsg_odd = o.rawmsg /\ r.rawmsg_even = e.rawmsg

\* The scenario of the specification: one aircraft, an odd frame at t=100,
\* an even frame at t=104 and an odd frame at t=200.
Scenario ==
    <<Frame("400a0e", 100, TRUE, 1, 1000), Frame("400a0e", 104, FALSE, 2, 1000),
      Frame("400a0e", 200, TRUE, 3, 1000)>>

\* C1 as stated: every frame (odd or even) with a frame of the other parity
\* of the same aircraft within 10 s, earlier or later, is in the pairing
\* output with a nearest such frame.  Stated for tables without missing
\* values.
C1_NearestEitherSide ==
    (Paired /\ \A i \in 1..Len(df) : Complete(df[i]))
        => \A i \in 1..Len(df) :
                Partners(i) # {} => \E j \in Nearest(i) : IsPair(i, j)

\* C1 amended: the match is backward only.  Every frame whose last frame of
\* the other parity of the same aircraft at or before it lies within 10 s is
\* in the pairing output with that frame, at its own timestamp, when neither
\* of the two frames has a missing value.
C1_BackwardBothDirections ==
    Paired =>
        \A i \in 1..Len(df) :
            (/\ Before(i) # {}
             /\ df[i].timestamp - df[Max(Before(i))].timestamp
                    <= Timedelta(PairTolerance)
             /\ Complete(df[i])
             /\ Complete(df[Max(Before(i))]))
            => LET j == Max(Before(i))
                   o == IF df[i].odd THEN df[i] ELSE df[j]
                   e == IF df[i].odd THEN df[j] ELSE df[i]
               IN  \E r \in Rows(pos_pairs) :
                        /\ r.rawmsg_odd = o.rawmsg
                        /\ r.rawmsg_even = e.rawmsg
                        /\ r.timestamp = df[i].timestamp

\* C1 witness: pairs were formed in both directions, one by an odd frame
\* matching an earlier even frame and one by an even frame matching an
\* earlier odd frame.
C1_Witness ==
    /\ pc = "paired"
    /\ \E r1, r2 \in Rows(pos_pairs) :
            /\ r1.mintime_even < r1.mintime_odd
            /\ r2.mintime_odd < r2.mintime_even

\* C2: every retained pair is one odd and one even frame of df of the same
\* icao24, at most 10 s apart, the odd frame in the _odd columns and the
\* even frame in the _even columns.
C2_PairShape ==
    Paired =>
        \A r \in Rows(pos_pairs) :
            \E i, j \in 1..Len(df) :
                /\ df[i].odd /\ ~df[j].odd
                /\ df[i].icao24 = r.icao24 /\ df[j].icao24 = r.icao24
                /\ r.rawmsg_odd = df[i].rawmsg
                /\ r.mintime_odd = df[i].mintime
                /\ r.altitude_odd = df[i].altitude
                /\ r.rawmsg_even = df[j].rawmsg
                /\ r.mintime_even = df[j].mintime
                /\ r.altitude_even = df[j].altitude
                /\ Abs(df[i].timestamp - df[j].timestamp) <= Timedelta(PairTolerance)

\* C2 witness: a retained pair whose even frame arrived first, exactly 10 s
\* before the odd frame.
C2_Witness ==
    /\ pc = "paired"
    /\ \E r \in Rows(pos_pairs) : r.mintime_odd = r.mintime_even + PairTolerance

\* C3: the timestamp of every retained pair is the later of the times of its
\* two frames; the frames at t=100 (odd) and t=104 (even) give one pair, at
\* t=104.
C3_LaterTimestamp ==
    /\ Paired =>
        \A r \in Rows(pos_pairs) :
            r.timestamp = pd_to_datetime(Max({r.mintime_odd, r.mintime_even}))
    /\ \A p \in Pairing(SubSeq(Scenario, 1, 2)) :
            Len(p) = 1 /\ p[1].timestamp = pd_to_datetime(104)

\* C3 witness: a retained pair whose odd frame is the earlier one.
C3_Witness ==
    /\ pc = "paired"
    /\ \E r \in Rows(pos_pairs) :
            r.mintime_odd < r.mintime_even /\ r.timestamp = pd_to_datetime(r.mintime_even)

\* C4: a frame without a frame of the other parity of the same aircraft
\* within 10 s is in no row of the pairing output, no row of it has a
\* missing value, and the frames odd@100, even@104, odd@200 give one pair.
C4_NoUnpairedRow ==
    /\ Paired =>
        /\ \A i \in 1..Len(df) :
                Partners(i) = {} =>
                    \A r \in Rows(pos_pairs) :
                        r.rawmsg_odd # df[i].rawmsg /\ r.rawmsg_even # df[i].rawmsg
        /\ \A r \in Rows(pos_pairs) : ~HasNa(r)
    /\ \A p \in Pairing(Scenario) : Len(p) = 1

\* C4 witness: a table with a pair and with a frame that has no partner.
C4_Witness ==
    /\ pc = "paired"
    /\ Len(pos_pairs) > 0
    /\ \E i \in 1..Len(df) : Complete(df[i]) /\ Partners(i) = {}

\* C5: when the pairing produces no pair, decode_position returns a table
\* without rows.
C5_EmptyTableWithoutPairs ==
    (pc = "done" /\ Len(pos_pairs) = 0) => Len(ret) = 0

(***************************************************************************)
(* Decoding and validation: claims                                         *)
(***************************************************************************)

\* decode_position went through the validation and returned at line 205.
ReturnedValidated == pc = "done" /\ Len(pos_pairs) > 0

\* The fix of the specification's scenario, (48.00, 2.00), with the
\* re-decodes ll1 and ll2 against the two references.
ScenarioFix(ll1, ll2) ==
    [lat |-> 4800000, lon |-> 200000,
     lat_1 |-> ll1[1], lon_1 |-> ll1[2], lat_2 |-> ll2[1], lon_2 |-> ll2[2]]

\* C6 as stated: every row decode_position returns has a fix and the two
\* re-decodes of it against the fixes 5 and 10 rows back, and is within 0.1
\* degree of both, in latitude and in longitude.
C6_EveryReturnedRowAgrees ==
    pc = "done" =>
        \A r \in Rows(ret) :
            /\ {"lat", "lon", "lat_1", "lon_1", "lat_2", "lon_2"} \subseteq DOMAIN r
            /\ Abs(r.lat - r.lat_1) <= MaxDiff
            /\ Abs(r.lon - r.lon_1) <= MaxDiff
            /\ Abs(r.lat - r.lat_2) <= MaxDiff
            /\ Abs(r.lon - r.lon_2) <= MaxDiff

\* C6 for the rows returned from line 205 only: every row the validation
\* returns is within 0.1 degree, in latitude and in longitude, of its
\* re-decodes against the fixes 5 and 10 rows back, and has both of these
\* fixes.
C6_AgreesWithReferences ==
    ReturnedValidated =>
        \A r \in Rows(ret) :
            /\ r.lat_ref_1 # NULL /\ r.lon_ref_1 # NULL
            /\ r.lat_ref_2 # NULL /\ r.lon_ref_2 # NULL
            /\ Abs(r.lat - r.lat_1) <= MaxDiff
            /\ Abs(r.lon - r.lon_1) <= MaxDiff
            /\ Abs(r.lat - r.lat_2) <= MaxDiff
            /\ Abs(r.lon - r.lon_2) <= MaxDiff

\* A row is returned from line 205 whose re-decode against the second
\* reference differs from its fix.
C6_Witness ==
    /\ ReturnedValidated
    /\ \E r \in Rows(ret) : r.lon_2 # r.lon

\* A value the validation needs is missing: a reference fix or a re-decode.
RefUnavailable(r) ==
    \/ r.lat_ref_1 = NULL \/ r.lon_ref_1 = NULL
    \/ r.lat_ref_2 = NULL \/ r.lon_ref_2 = NULL
    \/ r.lat_1 = NULL \/ r.lon_1 = NULL
    \/ r.lat_2 = NULL \/ r.lon_2 = NULL

Exceeds(r) ==
    \/ Abs(r.lat - r.lat_1) > MaxDiff
    \/ Abs(r.lon - r.lon_1) > MaxDiff
    \/ Abs(r.lat - r.lat_2) > MaxDiff
    \/ Abs(r.lon - r.lon_2) > MaxDiff

\* C7 as stated: a decoded pair is dropped if and only if a reference is
\* unavailable or a difference exceeds 0.1 degree.
C7_DroppedIffExceeds ==
    ReturnedValidated =>
        \A r \in Rows(pos_pairs) :
            (r \notin Rows(ret)) <=> (RefUnavailable(r) \/ Exceeds(r))

\* C7 amended: a decoded pair is retained if and only if no column of its
\* row is missing (the reference fixes, the re-decodes, the decoded altitude)
\* and every one of the four differences is strictly below 0.1 degree; the
\* scenario's fix is retained, and rejected with a 5-back re-decode of
\* (48.5, 2.0).
C7_RetainedIffStrictlyBelow ==
    /\ ReturnedValidated =>
        \A r \in Rows(pos_pairs) :
            (r \in Rows(ret)) <=>
                /\ ~HasNa(r)
                /\ Abs(r.lat - r.lat_1) < MaxDiff
                /\ Abs(r.lon - r.lon_1) < MaxDiff
                /\ Abs(r.lat - r.lat_2) < MaxDiff
                /\ Abs(r.lon - r.lon_2) < MaxDiff
    /\ Len(Validated(<<ScenarioFix(<<4800001, 200002>>, <<4799998, 199999>>)>>)) = 1
    /\ Len(Validated(<<ScenarioFix(<<4850000, 200000>>, <<4799998, 199999>>)>>)) = 0

\* C7 witness: the validation retained a row and dropped one whose 10-back
\* reference is missing and one whose difference is exactly 0.1 degree.
C7_Witness ==
    /\ ReturnedValidated
    /\ \E r \in Rows(pos_pairs) :
            /\ ~HasNa(r)
            /\ Abs(r.lat - r.lat_1) = MaxDiff
            /\ r \notin Rows(ret)
    /\ \E r \in Rows(pos_pairs) :
            r.lat_ref_1 # NULL /\ r.lat_ref_2 = NULL /\ r.lat_1 # NULL

\* Every pair was decoded to a fix: no row was dropped for a missing
\* position.
AllDecoded ==
    /\ pc \in {"refs", "filter", "done"}
    /\ Len(pos_pairs) > 0
    /\ \A p \in Pairing(df) : Len(p) = Len(pos_pairs)

\* The value of `column` n fixes back in the aircraft's own sequence of
\* fixes, for row k of pos_pairs.
OwnShift(k, n, column) ==
    LET own == SelectSeq(SubSeq(pos_pairs, 1, k),
                         LAMBDA r : r.icao24 = pos_pairs[k].icao24)
    IN  IF Len(own) > n THEN own[Len(own) - n][column] ELSE NULL

\* C8: the reference fixes of a row are the fixes 5 and 10 positions back in
\* the sequence of fixes of the same aircraft.  Stated for the calls in
\* which every pair was decoded.
C8_OwnAircraftReferences ==
    AllDecoded =>
        \A k \in 1..Len(pos_pairs) :
            /\ pos_pairs[k].lat_ref_1 = OwnShift(k, RefShift1, "lat")
            /\ pos_pairs[k].lon_ref_1 = OwnShift(k, RefShift1, "lon")
            /\ pos_pairs[k].lat_ref_2 = OwnShift(k, RefShift2, "lat")
            /\ pos_pairs[k].lon_ref_2 = OwnShift(k, RefShift2, "lon")

Returned == pc = "returned"

C11_SortedByIcao24Timestamp ==
    Returned =>
        \A i \in 1..(Len(ret) - 1) :
            /\ Icao24Rank(ret[i].icao24) <= Icao24Rank(ret[i + 1].icao24)
            /\ ret[i].icao24 = ret[i + 1].icao24 =>
                    ret[i].timestamp <= ret[i + 1].timestamp

\* C11 witness: rollcall rows were appended and the final sort moved rows.
C11_Witness ==
    /\ Returned
    /\ ~include_rollcall
    /\ Len(rollcall_data) > 0
    /\ Len(positions) = 2
    /\ ret # pos_data
    /\ \E i \in 1..(Len(ret) - 1) : ret[i].icao24 # ret[i + 1].icao24
    /\ \E i \in 1..(Len(ret) - 1) :
            ret[i].icao24 = ret[i + 1].icao24 /\ ret[i].timestamp < ret[i + 1].timestamp

\* The value of column c of row r: missing when r has no such column.
Value(r, c) == IF c \in DOMAIN r THEN r[c] ELSE NULL

\* The row of the returned table that comes from row p of positions.
FusedRowOf(p) == CHOOSE r \in Rows(ret) : r.lat = p.lat

\* The samples of the table `samples` of the aircraft of p that are at most
\* 5 seconds from p, and those of them nearest to p.
Within(p, samples) ==
    {j \in 1..Len(samples) :
        /\ samples[j].icao24 = p.icao24
        /\ Abs(samples[j].timestamp - p.timestamp) <= Timedelta(FuseTolerance)}

NearestWithin(p, samples) ==
    {j \in Within(p, samples) : \A k \in Within(p, samples) :
        Abs(samples[j].timestamp - p.timestamp)
            <= Abs(samples[k].timestamp - p.timestamp)}

\* C12: every position row is in the returned table with its own icao24,
\* timestamp, position and altitude; its velocity, vertical_rate and
\* geominurbaro are those of a velocity sample of the same aircraft nearest
\* in time among those at most 5 seconds away, and missing when there is
\* none; likewise its callsign and the identification samples.  A velocity
\* sample at 101.8 s is joined to a position at 102.0 s, one at 90 s is not.
C12_NearestSampleWithinTolerance ==
    /\ Returned =>
        \A i \in 1..Len(positions) :
            LET p == positions[i]
                r == FusedRowOf(p)
            IN  /\ \E x \in Rows(ret) : x.lat = p.lat
                /\ r.icao24 = p.icao24 /\ r.timestamp = p.timestamp
                /\ r.altitude = p.altitude
                /\ IF Within(p, vel_data) = {}
                   THEN /\ Value(r, "velocity") = NULL
                        /\ Value(r, "vertical_rate") = NULL
                        /\ Value(r, "geominurbaro") = NULL
                   ELSE \E j \in NearestWithin(p, vel_data) :
                            /\ r.velocity = vel_data[j].velocity
                            /\ r.vertical_rate = vel_data[j].vertical_rate
                            /\ r.geominurbaro = vel_data[j].geominurbaro
                /\ IF Within(p, ident_data) = {}
                   THEN Value(r, "callsign") = NULL
                   ELSE \E j \in NearestWithin(p, ident_data) :
                            r.callsign = ident_data[j].callsign
    /\ AsofNearest([icao24 |-> "400a0e", timestamp |-> 102000],
                   <<[icao24 |-> "400a0e", timestamp |-> 101800]>>,
                   Timedelta(FuseTolerance)) = 1
    /\ AsofNearest([icao24 |-> "400a0e", timestamp |-> 102000],
                   <<[icao24 |-> "400a0e", timestamp |-> 90000]>>,
                   Timedelta(FuseTolerance)) = 0

\* C12 witness: a position row got the velocity of a later sample, and a
\* position row has no callsign though there is an identification sample.
C12_Witness ==
    /\ Returned
    /\ Len(ident_data) > 0
    /\ \E r \in Rows(ret) : r.lat # NULL /\ r.callsign = NULL
    /\ \E r \in Rows(ret) : \E j \in 1..Len(vel_data) :
            /\ r.lat # NULL
            /\ r.velocity = vel_data[j].velocity
            /\ vel_data[j].timestamp > r.timestamp

\* The velocity fusion is done.
VelocityFused == pc \in {"identification", "rollcall", "returned"}

\* The track of the velocity sample joined to row r (missing: none joined).
TrackVel(r) ==
    IF Value(r, "velocity") = NULL THEN NULL
    ELSE LET j == CHOOSE k \in 1..Len(vel_data) : vel_data[k].velocity = r.velocity
         IN  vel_data[j].track

\* C13: after the velocity fusion the track of a position row is its own
\* track when it has one, and the track of the velocity sample joined to it
\* only when it has none.
C13_PositionTrackWins ==
    VelocityFused =>
        \A i \in 1..Len(positions) :
            /\ positions[i].track # NULL => pos_data[i].track = positions[i].track
            /\ positions[i].track = NULL => pos_data[i].track = TrackVel(pos_data[i])

\* C13 witness: a row with a track of its own was joined to a velocity sample
\* with another track, and a row without one took the track of its sample.
C13_Witness ==
    /\ pc = "identification"
    /\ \E i \in 1..Len(positions) :
            /\ positions[i].track # NULL
            /\ TrackVel(pos_data[i]) # NULL
            /\ TrackVel(pos_data[i]) # positions[i].track
    /\ \E i \in 1..Len(positions) :
            /\ positions[i].track = NULL
            /\ pos_data[i].track # NULL

\* C14: in every table of the fusion, and in the table returned, a row has a
\* geoaltitude if and only if it has an altitude and a geominurbaro, and the
\* geoaltitude is then their sum.
C14_GeoaltitudeIsSum ==
    VelocityFused =>
        \A r \in Rows(pos_data) \cup (IF Returned THEN Rows(ret) ELSE {}) :
            /\ Value(r, "geoaltitude") # NULL <=>
                    (Value(r, "altitude") # NULL /\ Value(r, "geominurbaro") # NULL)
            /\ Value(r, "geoaltitude") # NULL =>
                    r.geoaltitude = r.altitude + r.geominurbaro

\* C14 witness: the returned table has a row with a geoaltitude, and a row
\* joined to a velocity sample that has an altitude only or a geominurbaro
\* only.
C14_Witness ==
    /\ Returned
    /\ Len(vel_data) > 0
    /\ \E r \in Rows(ret) : r.geoaltitude # NULL
    /\ \E r \in Rows(ret) :
            \/ r.altitude # NULL /\ r.velocity # NULL /\ r.geominurbaro = NULL
            \/ r.altitude = NULL /\ r.geominurbaro # NULL

(***************************************************************************)
(* The call of rebuild: claims                                             *)
(***************************************************************************)

\* C15: rebuild given a decoder name that is neither "pymodes" nor "rs1090"
\* raises the ValueError of the decoder name at its first step, whatever
\* icao24 and bounds are: no table has been requested, and the ValueError of
\* the missing filter is not raised.
C15_UnknownDecoderRaisesFirst ==
    /\ [](decoder = "unknown" =>
            /\ pc \in {"rebuild", UnknownDecoder}
            /\ fetched = <<>>
            /\ positions = <<>>)
    /\ [][(pc = "rebuild" /\ decoder = "unknown") => pc' = UnknownDecoder]_vars

\* C15 witness: the decoder name error was raised for a call without icao24.
C15_Witness ==
    /\ pc = UnknownDecoder
    /\ decoder = "unknown"
    /\ query_icao24 = "None"

\* C16: rebuild and its redecode_position, given neither icao24 nor bounds,
\* raise a ValueError, and no table has been requested when they do.
C16_NoFilterRaisesBeforeFetch ==
    /\ [](query_icao24 = "None" /\ bounds = "None" =>
            /\ pc \in {"rebuild", "redecode_position", UnknownDecoder, NoFilter}
            /\ fetched = <<>>
            /\ positions = <<>>)
    /\ [][(pc = "redecode_position" /\ query_icao24 = "None" /\ bounds = "None")
            => pc' = NoFilter]_vars

\* C16 witness: the filter error was raised after a decoder was made from
\* its name.
C16_Witness ==
    /\ pc = NoFilter
    /\ decoder = "PyModesDecoder"
    /\ fetched = <<>>

(***************************************************************************)
(* Fusion with empty streams: claims                                       *)
(***************************************************************************)

\* C17 as stated: rebuild returns a table only when the position, the
\* velocity and the identification table all have rows; when one of them is
\* empty it returns None.
C17_NoneWhenRequiredStreamEmpty ==
    Returned =>
        /\ Len(positions) > 0
        /\ Len(vel_data) > 0
        /\ Len(ident_data) > 0

\* C18 as stated: every row of a returned table has the columns velocity,
\* track, vertical_rate, geoaltitude and callsign, whether or not there was
\* data to fill them.
C18_ColumnsOfEveryCategory ==
    Returned =>
        \A r \in Rows(ret) :
            {"velocity", "track", "vertical_rate", "geoaltitude", "callsign"}
                \subseteq DOMAIN r

(***************************************************************************)
(* Decoding failures: claims                                               *)
(***************************************************************************)

\* C19 as stated: decode_position never raises, whatever the decoding of a
\* pair does (pms.adsb.position or pms.adsb.altitude raising, or a position
\* of None), and a table it returns from the validation has no row without a
\* position.
C19_DecodeFailureNeverAborts ==
    /\ pc # "raised"
    /\ ReturnedValidated =>
            \A r \in Rows(ret) : r.lat # NULL /\ r.lon # NULL

(***************************************************************************)
(* Rollcall modes: claims                                                  *)
(***************************************************************************)

C23_EmptyValidationNeverRaises ==
    pc = "raised" => Len(pos_pairs) > 0

\* C24 as stated: no two rows of the pairing output hold the same odd frame
\* and the same even frame.
C24_NoDuplicatePair ==
    Paired =>
        \A i, j \in 1..Len(pos_pairs) :
            (/\ pos_pairs[i].rawmsg_odd = pos_pairs[j].rawmsg_odd
             /\ pos_pairs[i].rawmsg_even = pos_pairs[j].rawmsg_even) => i = j

\* The (odd frame, even frame) pairs of a pairing output.
PairSet(p) == {<<r.rawmsg_odd, r.rawmsg_even>> : r \in Rows(p)}

\* The frames of df that occur in pos_pairs, in the order of df.
PairedFrames ==
    SelectSeq(df, LAMBDA f : \E r \in Rows(pos_pairs) :
                    \/ f.odd /\ r.rawmsg_odd = f.rawmsg
                    \/ ~f.odd /\ r.rawmsg_even = f.rawmsg)

\* C25 as stated: the frames of the pairing output, given to the pairing
\* again as a table sorted by timestamp, yield no pair that is not in the
\* output.
C25_RepairingYieldsNoNewPair ==
    Paired =>
        \A t \in sort_values(PairedFrames) :
            PairSet(dropna(concat(t))) \subseteq PairSet(pos_pairs)

\* C25 for the frames given again in the order they had in the table: no
\* new pair.
C25_RepairingInTableOrder ==
    Paired => PairSet(dropna(concat(PairedFrames))) \subseteq PairSet(pos_pairs)

(***************************************************************************)
(* Addresses: claims                                                       *)
(***************************************************************************)

\* The address in small letters.
Lower(icao24) == IF icao24 = "400A0E" THEN "400a0e" ELSE icao24

\* C26 as stated: the addresses are in one spelling before a join, so a
\* position row with a velocity sample of its aircraft at most 5 seconds
\* away, however the velocity table spells the address, has a velocity after
\* the velocity fusion.
C26_SpellingsOfOneAddressMatch ==
    VelocityFused =>
        \A i \in 1..Len(positions) :
            (\E j \in 1..Len(vel_data) :
                /\ Lower(vel_data[j].icao24) = Lower(positions[i].icao24)
                /\ Abs(vel_data[j].timestamp - positions[i].timestamp)
                        <= Timedelta(FuseTolerance))
                => Value(pos_data[i], "velocity") # NULL


(***************************************************************************)
(* The order of the stages of rebuild: claims                              *)
(***************************************************************************)

StageOrder == <<"bounds", "position", "velocity", "identification", "rollcall">>

StageRank(table) == CHOOSE i \in 1..Len(StageOrder) : StageOrder[i] = table

\* the positions of pc at or after the stage of `table`
StageReached(table) ==
    CASE table = "bounds" -> TRUE
      [] table = "position" -> pc \in {"position", "none", "velocity",
                                       "identification", "rollcall", "returned"}
      [] table = "velocity" -> pc \in {"velocity", "identification",
                                       "rollcall", "returned"}
      [] table = "identification" -> pc \in {"identification", "rollcall",
                                             "returned"}
      [] table = "rollcall" -> pc \in {"rollcall", "returned"}

\* the steps of pc the order of the stages allows
StageSteps ==
    {<<"rebuild", "redecode_position">>, <<"rebuild", UnknownDecoder>>,
     <<"redecode_position", "bounds">>, <<"redecode_position", NoFilter>>,
     <<"bounds", "position">>, <<"bounds", "none">>,
     <<"position", "none">>, <<"position", "velocity">>,
     <<"velocity", "identification">>, <<"identification", "rollcall">>,
     <<"rollcall", "returned">>}

C27_RequestsInOrder ==
    /\ \A i, j \in 1..Len(fetched) :
            i < j => StageRank(fetched[i].table) < StageRank(fetched[j].table)
    /\ \A i \in 1..Len(fetched) :
            /\ StageReached(fetched[i].table)
            /\ fetched[i].table = "bounds" =>
                    i = 1 /\ bounds # "None" /\ fetched[i].icao24 = {}
            /\ fetched[i].table = "position" =>
                    fetched[i].icao24 # {} /\ "None" \notin fetched[i].icao24
            /\ fetched[i].table \in {"velocity", "identification", "rollcall"} =>
                    /\ Len(positions) > 0
                    /\ fetched[i].icao24 # {}
                    /\ fetched[i].icao24 \subseteq Addresses(positions)
    /\ pc = "none" =>
            /\ Len(positions) = 0
            /\ \A i \in 1..Len(fetched) :
                    fetched[i].table \in {"bounds", "position"}
    /\ ret # <<>> => pc = "returned"

\* C27: the stages of rebuild run in the order position fetch (with the
\* decoding inside redecode_position), velocity fetch and fusion,
\* identification fetch and fusion, rollcall fetch and fusion, final sort;
\* a call with bounds and without icao24 makes exactly one request with the
\* bounds before the position request for the addresses; the later requests
\* ask only for addresses of the position output; no request follows an
\* empty position result.
C27_StagesInOrder ==
    /\ []C27_RequestsInOrder
    /\ [][/\ pc' # pc => <<pc, pc'>> \in StageSteps
          /\ (pc = "bounds" /\ pc' # pc /\ bounds # "None"
                /\ query_icao24 = "None") =>
                    fetched' = <<[table |-> "bounds", icao24 |-> {}]>>
          /\ (pc = "bounds" /\ pc' # pc
                /\ ~(bounds # "None" /\ query_icao24 = "None")) =>
                    fetched' = <<>>
          /\ pc \in {"none", "returned"} => fetched' = fetched]_vars

\* a call with bounds only that went through all the stages
C27_Witness ==
    /\ pc = "returned"
    /\ Len(fetched) = 5
    /\ fetched[1].table = "bounds"
    /\ fetched[2].icao24 \subseteq Icao24s
    /\ Len(vel_data) > 0


(***************************************************************************)
(* Rs1090Decoder.decode: claims                                            *)
(***************************************************************************)

\* the records of a table, without the labels of its rows
Unlabelled(t) ==
    [k \in 1..Len(t) |-> [row |-> t[k].row, timestamp |-> t[k].timestamp]]

\* the records assembled in one piece
OnePiece(d) == assign_timestamp(from_records(d))

Decoded == pc \in {"returned", "raised"}

\* C30: for any number of records, the table assembled from the batches
\* holds every record once, in the order of the records, as the table
\* assembled in one piece does.
C30_ChunksAssembleLikeOnePiece ==
    Decoded => pc = "returned" /\ Unlabelled(ret) = Unlabelled(OnePiece(records))

\* With one record or more it does, also across the end of a batch.
C30_SomeRecordsAssembleLikeOnePiece ==
    (Decoded /\ Len(records) > 0) =>
        pc = "returned" /\ Unlabelled(ret) = Unlabelled(OnePiece(records))

\* a table of several batches, the last one not full
C30_SeveralBatches ==
    /\ pc = "returned"
    /\ Len(batched(records, chunk)) > 1
    /\ Len(records) % chunk # 0

\* the labels of the rows start again at 0 in every batch
C30_LabelsLikeOnePiece ==
    pc = "returned" => ret = OnePiece(records)


(***************************************************************************)
(* Trino.token: claims                                                     *)
(***************************************************************************)

\* token() was called, with credentials in the configuration
TokenCalled == call.method = "token" /\ trino_username # "None"

\* the token cached before the call was still valid at the call
CachedValid == call.cached # NoToken /\ call.cached.exp > call.at - Margin

\* C28: with credentials, token() returns the cached access token without a request only
\* while that token is still valid; when it has expired or none is cached
\* it requests a new one; after a 400 or 401 answer it returns None and
\* leaves the cached token as it was.
C28_CachedTokenOnlyWhileValid ==
    TokenCalled =>
        /\ (~call.requested /\ call.result # NULL) =>
                CachedValid /\ call.result = call.cached.access_token
        /\ ~CachedValid => call.requested
        /\ (call.requested /\ call.status_code \in {400, 401}) =>
                call.result = NULL /\ ~call.raised /\ _token = call.cached

\* What the code does after a 400 or 401 answer is what the claim says.
C28_RefusedLeavesToken ==
    (TokenCalled /\ call.requested /\ call.status_code \in {400, 401}) =>
        call.result = NULL /\ ~call.raised /\ _token = call.cached

\* With credentials, an expired token is returned without a request.
C28_ExpiredTokenReturned ==
    /\ TokenCalled
    /\ ~call.requested
    /\ call.result # NULL
    /\ call.cached.exp < call.at


(***************************************************************************)
(* Trino.query: claims                                                     *)
(***************************************************************************)

\* the cache held a file for the query and the compress setting of the call
HitBefore ==
    \E f \in call.before : f.file = CacheFile(call.query, call.compress)

FileBefore ==
    CHOOSE f \in call.before : f.file = CacheFile(call.query, call.compress)

\* the files of the other queries and of the other compress setting
OtherFiles(files) ==
    {f \in files : f.file # CacheFile(call.query, call.compress)}

\* C22: query(cached=False) always asks the database and removes the cache
\* file of the query; query(cached=True) returns the table of the cache file
\* of the same query and compress setting without asking the database when
\* there is one, and otherwise saves the table only when the request
\* succeeded.
C22_CacheFollowsCachedFlag ==
    call.method = "query" =>
        /\ ~call.cached =>
                /\ call.contacted
                /\ ~Exists(call.query, call.compress)
        /\ (call.cached /\ HitBefore) =>
                /\ ~call.contacted
                /\ call.error = "None"
                /\ call.result = FileBefore.table
                /\ cache_files = call.before
        /\ (call.cached /\ ~HitBefore) =>
                /\ call.contacted
                /\ call.error # "None" => cache_files = call.before
                /\ call.error = "None" =>
                        cache_files = call.before \cup
                            {[file |-> CacheFile(call.query, call.compress),
                              table |-> call.result]}
        /\ OtherFiles(cache_files) = OtherFiles(call.before)

\* a call with cached=False that found a file, removed it and asked again
C22_Witness ==
    /\ call.method = "query"
    /\ ~call.cached
    /\ HitBefore
    /\ call.contacted
    /\ call.error = "None"
    /\ call.result # FileBefore.table
    /\ ~Exists(call.query, call.compress)
    /\ Exists(call.query, ~call.compress)


(***************************************************************************)
(* Trino.flightlist and Trino.history: claims                              *)
(***************************************************************************)

AirportCall == call.method \in {"flightlist", "history"}

\* airport was given together with an arrival or a departure airport
AirportGivenTwice ==
    /\ call.query.airport # "None"
    /\ \/ call.query.arrival_airport # "None"
       \/ call.query.departure_airport # "None"

\* C21: history and flightlist raise RuntimeError, with the message about
\* arrival_airport or the one about departure_airport, whenever airport is
\* given together with arrival_airport or departure_airport, whatever the
\* limit; no query was executed and no file of the cache was written or
\* removed before the error.
C21_AirportConflictRaisesFirst ==
    /\ [](AirportCall /\ AirportGivenTwice =>
            /\ call.error = IF call.query.arrival_airport # "None"
                            THEN "airport may not be set if arrival_airport is"
                            ELSE "airport may not be set if departure_airport is"
            /\ ~call.contacted
            /\ call.result = NULL
            /\ cache_files = call.before)
    /\ [][(AirportCall /\ AirportGivenTwice)' => cache_files' = cache_files]_vars

\* the call of the test: airport and arrival_airport with a limit, on a
\* cache that holds a file
C21_Witness ==
    /\ AirportCall
    /\ call.method = "history"
    /\ call.query.airport # "None"
    /\ call.query.arrival_airport # "None"
    /\ call.query.limit # NULL
    /\ call.error = "airport may not be set if arrival_airport is"
    /\ call.before # {}


(***************************************************************************)
(* REST.get: claims                                                        *)
(***************************************************************************)

GetDone == pc \in {"returned", "HTTPStatusError", "JSONDecodeError"}

\* C29: REST.get terminates whatever the server answers: after a bounded
\* number of requests it returns the JSON body or raises the HTTP error.
C29_GetTerminates == <>GetDone

\* The count of the requests is not bounded by the retry budget either.
C29_RequestsWithinBudget == sent <= call.retry + 1

\* The budget does bound the 503 answers: each one takes one from it.
C29_BudgetDecreases ==
    [][(pc = "get" /\ response'.status_code = 503 /\ pc' = "get") =>
            retry' = retry - 1 /\ retry' >= 0]_vars

\* A call can also end with an error that is not the HTTP error.
C29_EndsWithBodyOrHttpError ==
    GetDone => pc \in {"returned", "HTTPStatusError"}
====
